---------------------------- MODULE Spec2Model ----------------------------
(***************************************************************************)
(* The MCP memory bridge of claude-code-memory: the request dispatcher     *)
(* (MCPMemoryServer.handle_mcp_request), the HTTP endpoints in front of it *)
(* (mcp_server.py) and the stdin/stdout loop that forwards to POST /mcp    *)
(* (mcp_stdio.py).                                                         *)
(*                                                                         *)
(* Python values are tokens: None is "None", the empty string "", the      *)
(* empty list "[]", the empty dict "{}"; no modelled string is "None".     *)
(* A dict with optional keys is a function on the keys present.            *)
(***************************************************************************)
EXTENDS Integers, Sequences, FiniteSets, TLC

VARIABLES
    mcp_server,   \* the module global mcp_server: None or the server instance
    memory,       \* mcp_server.memory, the engine handle: None or the client
    lifespan,     \* the startup hook: "pending", "ok" or "failed"
    request,      \* the HTTP request of a direct client waiting to be served
    reply,        \* what the server did with the last request it served
    stdin,        \* the bridge's input stream: the raw lines not read yet
    closed,       \* the writer closed the input stream
    pc,           \* where MCPStdioBridge.run is
    message,      \* run's local: the parsed message
    response,     \* run's local: the response about to be written
    exc,          \* the exception process_message caught last ("None" if none)
    stdout,       \* the lines written to the output stream
    eof,          \* readline has returned '' at the end of the stream
    consumed,     \* the lines read so far that were not blank, stripped
    server_url,   \* the bridge's self.server_url
    clients,      \* how many httpx.AsyncClient instances the bridge has made
    inflight,     \* the POST /mcp requests being served concurrently
    log           \* the concurrent requests served, in the order served

vars == <<mcp_server, memory, lifespan, request, reply,
          stdin, closed, pc, message, response, exc, stdout, eof,
          consumed, server_url, clients, inflight, log>>

serverVars == <<mcp_server, memory, lifespan>>
bridgeVars == <<stdin, closed, pc, message, response, exc, stdout, eof,
                consumed, server_url, clients>>
callVars == <<inflight, log>>

----------------------------------------------------------------------------
(* Python values *)

None == "None"

EmptyDict == [k \in {} |-> None]

\* `not v`: None, '', [], {} and 0 are false
Falsy == {"None", "", "[]", "{}", "0"}

\* dict.get(key, default)
Get(d, key, default) == IF key \in DOMAIN d THEN d[key] ELSE default

\* {} or {key: v} for v in vals
OptField(key, vals) == {EmptyDict} \cup {(key :> v) : v \in vals}

----------------------------------------------------------------------------
(* The engine facade (mem0.Memory), a stand-in: each invocation is recorded *)
(* and its outcome, a returned value or a raised exception, is chosen by    *)
(* the environment.                                                         *)

\* what an engine operation does when invoked: return a value or raise
EngineOutcomes ==
    {[ok |-> TRUE, value |-> v, desc |-> ""] : v \in {"None", "[]", "R"}}
    \cup {[ok |-> FALSE, value |-> None, desc |-> d] : d \in {"", "boom"}}

\* one recorded invocation
EngineCall(op, kwargs) == [op |-> op, kwargs |-> kwargs]

----------------------------------------------------------------------------
(* mcp_server.py: the dispatcher *)

MCPResponse(result, error) == [result |-> result, error |-> error]

\* a handler returned an envelope, having made `calls`
Return(resp, calls) ==
    [raised |-> FALSE, error |-> "", response |-> resp, calls |-> calls]

\* a handler raised an exception e with str(e) = desc, having made `calls`
Raise(desc, calls) ==
    [raised |-> TRUE, error |-> desc, response |-> MCPResponse(None, None),
     calls |-> calls]

\* the engine is invoked: `result` is returned, or the engine's fault propagates
\* (self.memory.<op> on a None handle is an AttributeError before any call)
Invoke(call, eng, result) ==
    IF memory = None
    THEN Raise("'NoneType' object has no attribute '" \o call.op \o "'", <<>>)
    ELSE IF eng.ok THEN Return(MCPResponse(result, None), <<call>>)
    ELSE Raise(eng.desc, <<call>>)

_add_memory_unchecked(params, eng) ==
    LET messages == Get(params, "messages", "[]")
        user_id == Get(params, "user_id", "default")
        metadata == Get(params, "metadata", "{}")
    IN  Invoke(EngineCall("add", [messages |-> messages, user_id |-> user_id,
                                  metadata |-> metadata]), eng, eng.value)

_add_memory(params, eng) ==
    LET messages == Get(params, "messages", "[]")
        user_id == Get(params, "user_id", "default")
        metadata == Get(params, "metadata", "{}")
    IN  IF messages \in Falsy
        THEN Return(MCPResponse(None, "No messages provided"), <<>>)
        ELSE Invoke(EngineCall("add", [messages |-> messages,
                                       user_id |-> user_id,
                                       metadata |-> metadata]), eng, eng.value)

_search_memory_none_only(params, eng) ==
    LET query == Get(params, "query", None)
        user_id == Get(params, "user_id", "default")
        limit == Get(params, "limit", "5")
    IN  IF query = None
        THEN Return(MCPResponse(None, "No query provided"), <<>>)
        ELSE Invoke(EngineCall("search", [query |-> query, user_id |-> user_id,
                                          limit |-> limit]), eng, eng.value)

_search_memory(params, eng) ==
    LET query == Get(params, "query", None)
        user_id == Get(params, "user_id", "default")
        limit == Get(params, "limit", "5")
    IN  IF query \in Falsy
        THEN Return(MCPResponse(None, "No query provided"), <<>>)
        ELSE Invoke(EngineCall("search", [query |-> query, user_id |-> user_id,
                                          limit |-> limit]), eng, eng.value)

_list_memories_anonymous(params, eng) ==
    LET user_id == Get(params, "user_id", "anonymous")
    IN  Invoke(EngineCall("get_all", [user_id |-> user_id]), eng, eng.value)

_list_memories_shared(params, eng) ==
    LET last == IF log = <<>> THEN EmptyDict ELSE log[Len(log)].req.params
        user_id == Get(params, "user_id", Get(last, "user_id", "default"))
    IN  Invoke(EngineCall("get_all", [user_id |-> user_id]), eng, eng.value)

_list_memories(params, eng) ==
    LET user_id == Get(params, "user_id", "default")
    IN  Invoke(EngineCall("get_all", [user_id |-> user_id]), eng, eng.value)

_delete_memory_lookup(params, eng) ==
    LET memory_id == Get(params, "memory_id", None)
        lookup == EngineCall("get_all", [user_id |-> "default"])
        r == Invoke(EngineCall("delete", [memory_id |-> memory_id]), eng,
                    "{success: True}")
    IN  IF memory_id \in Falsy
        THEN Return(MCPResponse(None, "No memory_id provided"), <<>>)
        ELSE [r EXCEPT !.calls = <<lookup>> \o @]

_delete_memory(params, eng) ==
    LET memory_id == Get(params, "memory_id", None)
    IN  IF memory_id \in Falsy
        THEN Return(MCPResponse(None, "No memory_id provided"), <<>>)
        ELSE Invoke(EngineCall("delete", [memory_id |-> memory_id]), eng,
                    "{success: True}")

_reset_memory_passthrough(params, eng) ==
    LET user_id == Get(params, "user_id", "default")
    IN  Invoke(EngineCall("reset", [user_id |-> user_id]), eng, eng.value)

_reset_memory(params, eng) ==
    LET user_id == Get(params, "user_id", "default")
    IN  Invoke(EngineCall("reset", [user_id |-> user_id]), eng,
               "{success: True}")

Route_ping_probes(method, params, eng) ==
    CASE method = "memory/add" -> _add_memory(params, eng)
      [] method = "memory/search" -> _search_memory(params, eng)
      [] method = "memory/list" -> _list_memories(params, eng)
      [] method = "memory/delete" -> _delete_memory(params, eng)
      [] method = "memory/reset" -> _reset_memory(params, eng)
      [] method = "ping" -> Invoke(EngineCall("get_all", [user_id |-> "default"]),
                                   eng, "{status: pong}")
      [] OTHER -> Return(MCPResponse(None, "Unknown method: " \o method), <<>>)

\* the if/elif chain of handle_mcp_request, inside its try
Route(method, params, eng) ==
    CASE method = "memory/add" -> _add_memory(params, eng)
      [] method = "memory/search" -> _search_memory(params, eng)
      [] method = "memory/list" -> _list_memories(params, eng)
      [] method = "memory/delete" -> _delete_memory(params, eng)
      [] method = "memory/reset" -> _reset_memory(params, eng)
      [] method = "ping" -> Return(MCPResponse("{status: pong}", None), <<>>)
      [] OTHER -> Return(MCPResponse(None, "Unknown method: " \o method), <<>>)

handle_mcp_request_propagating(req, eng) ==
    Route(req.method, req.params, eng)

handle_mcp_request_silent(req, eng) ==
    LET r == IF req.method \in {"memory/add", "memory/search", "memory/list",
                                "memory/delete", "memory/reset", "ping"}
             THEN Route(req.method, req.params, eng)
             ELSE Return(MCPResponse("{status: pong}", None), <<>>)
    IN  IF r.raised THEN Return(MCPResponse(None, r.error), r.calls) ELSE r

handle_mcp_request(req, eng) ==
    LET r == Route(req.method, req.params, eng)
    IN  IF r.raised
        THEN Return(MCPResponse(None, r.error), r.calls)   \* except Exception
        ELSE r

----------------------------------------------------------------------------
(* mcp_server.py: the HTTP endpoints *)

\* class MCPRequest
MCPRequest(method, params) == [method |-> method, params |-> params]

NoMCPRequest == MCPRequest("", EmptyDict)

NoOutcome == [ok |-> TRUE, value |-> None, desc |-> "not invoked"]

\* what serving one HTTP request did: the HTTP response (status, body, whether
\* the body is JSON), the MCPRequest built, whether handle_mcp_request was
\* called on the server instance (dispatched) or on None (onNone), the engine
\* invocations made and the outcome the engine gave
Served(status, isjson, body, req, dispatched, onNone, calls, eng) ==
    [status |-> status, isjson |-> isjson, body |-> body, req |-> req,
     dispatched |-> dispatched, onNone |-> onNone, calls |-> calls,
     eng |-> IF calls = <<>> THEN NoOutcome ELSE eng]

\* FastAPI rejects a body or query that does not fit the handler's signature
Unprocessable ==
    Served(422, TRUE, [detail |-> "validation error"], NoMCPRequest,
           FALSE, FALSE, <<>>, NoOutcome)

\* raise HTTPException(status_code=503, detail=...)
HTTPException(status, detail) ==
    Served(status, TRUE, [detail |-> detail], NoMCPRequest,
           FALSE, FALSE, <<>>, NoOutcome)

\* an exception that leaves the handler: 500 with a plain-text body
InternalServerError(req, dispatched, onNone, calls, eng) ==
    Served(500, FALSE, "Internal Server Error", req, dispatched, onNone,
           calls, eng)

\* response = await mcp_server.handle_mcp_request(request); return response
CallServer(req, eng) ==
    IF mcp_server = None
    THEN InternalServerError(req, FALSE, TRUE, <<>>, eng)  \* AttributeError
    ELSE LET h == handle_mcp_request(req, eng)
         IN  IF h.raised
             THEN InternalServerError(req, TRUE, FALSE, h.calls, eng)
             ELSE Served(200, TRUE, h.response, req, TRUE, FALSE, h.calls, eng)

\* POST /mcp with a JSON body
mcp_endpoint(body, eng) ==
    IF ~(body.type = "dict" /\ "method" \in DOMAIN body.fields)
    THEN Unprocessable
    ELSE IF mcp_server = None
    THEN HTTPException(503, "MCP server not initialized")
    ELSE CallServer(MCPRequest(body.fields["method"],
                               Get(body.fields, "params", EmptyDict)), eng)

add_memory_other_default(args, eng) ==
    IF "messages" \notin DOMAIN args
    THEN Unprocessable
    ELSE CallServer(MCPRequest("memory/add",
                        [messages |-> args["messages"],
                         user_id |-> Get(args, "user_id", "anonymous"),
                         metadata |-> Get(args, "metadata", "{}")]), eng)

\* POST /memory/add
add_memory(args, eng) ==
    IF "messages" \notin DOMAIN args
    THEN Unprocessable
    ELSE CallServer(MCPRequest("memory/add",
                        [messages |-> args["messages"],
                         user_id |-> Get(args, "user_id", "default"),
                         metadata |-> Get(args, "metadata", "{}")]), eng)

\* GET /memory/search
search_memory(args, eng) ==
    IF "query" \notin DOMAIN args
    THEN Unprocessable
    ELSE CallServer(MCPRequest("memory/search",
                        [query |-> args["query"],
                         user_id |-> Get(args, "user_id", "default"),
                         limit |-> Get(args, "limit", "5")]), eng)

----------------------------------------------------------------------------
(* The requests of the model *)

Recognized == {"memory/add", "memory/search", "memory/list",
               "memory/delete", "memory/reset", "ping"}

Methods == Recognized \cup {"memory/unknown"}

Merge(A, B) == {a @@ b : a \in A, b \in B}

ParamDicts ==
    Merge(OptField("messages", {"[]", "[m1]"}),
    Merge(OptField("query", {"None", "", "q"}),
    Merge(OptField("memory_id", {"None", "", "id1"}),
    Merge(OptField("user_id", {"alice"}),
    Merge(OptField("limit", {"3"}),
          OptField("metadata", {"{k: v}"}))))))

JsonDict(fields) == [type |-> "dict", fields |-> fields]

McpBodies ==
    {JsonDict(("method" :> m) @@ ("params" :> p)) :
        m \in Methods, p \in ParamDicts}
    \cup {JsonDict("method" :> m) : m \in Methods}
    \cup {JsonDict("params" :> EmptyDict)}

AddArgs ==
    Merge(OptField("messages", {"[]", "[m1]"}),
    Merge(OptField("user_id", {"alice"}),
          OptField("metadata", {"{k: v}"})))

SearchArgs ==
    Merge(OptField("query", {"", "q"}),
    Merge(OptField("user_id", {"alice"}),
          OptField("limit", {"3"})))

Requests ==
    {[endpoint |-> "/mcp", body |-> b] : b \in McpBodies}
    \cup {[endpoint |-> "/memory/add", body |-> a] : a \in AddArgs}
    \cup {[endpoint |-> "/memory/search", body |-> a] : a \in SearchArgs}

NoRequest == [endpoint |-> "none", body |-> EmptyDict]

\* the bound on the requests accepted for concurrent service
MaxCalls == 3

\* the requests served concurrently
CallBodies ==
    {JsonDict(("method" :> m) @@ ("params" :> p)) :
        m \in {"memory/list", "memory/reset"},
        p \in OptField("user_id", {"alice"})}
    \cup {JsonDict(("method" :> "ping") @@ ("params" :> EmptyDict))}

\* the engine outcomes met while serving them
CallOutcomes ==
    {[ok |-> TRUE, value |-> "R", desc |-> ""],
     [ok |-> TRUE, value |-> None, desc |-> ""],
     [ok |-> FALSE, value |-> None, desc |-> "boom"]}

\* the record kept of a served request
Reply(endpoint, served) == [endpoint |-> endpoint] @@ served

NoReply ==
    Reply("none", Served(0, FALSE, "", NoMCPRequest, FALSE, FALSE, <<>>,
                         NoOutcome))

----------------------------------------------------------------------------
(* mcp_stdio.py: the stdin/stdout bridge *)

\* the bound on the lines in the input stream plus the lines written
MaxLines == 2

ParseErrorCode == -32700
InternalErrorCode == -32603

PingAbc ==
    JsonDict(("method" :> "ping") @@ ("params" :> EmptyDict) @@ ("id" :> "abc"))
PingNoId ==
    JsonDict(("method" :> "ping") @@ ("params" :> EmptyDict))
SearchId7 ==
    JsonDict(("method" :> "memory/search") @@ ("params" :> ("query" :> "q"))
             @@ ("id" :> "7"))
NoMethodAbc ==
    JsonDict("id" :> "abc")
Number5 ==
    [type |-> "int", fields |-> EmptyDict]

NoMessage == [type |-> "none", fields |-> EmptyDict]

\* the raw lines a writer may send, each with its newline
RawLines ==
    {"\n", "  \n", "not json\n",
     "{\"method\":\"ping\",\"params\":{},\"id\":\"abc\"}\n",
     "{\"method\":\"ping\",\"params\":{}}\n",
     "{\"method\":\"memory/search\",\"params\":{\"query\":\"q\"},\"id\":7}\n",
     "{\"id\":\"abc\"}\n",
     "5\n"}

\* sys.stdin.readline(): the next line with its newline, '' at the end of the
\* stream; it raises nothing, EOFError in particular
readline(stream) ==
    [raises |-> None, line |-> IF stream = <<>> THEN "" ELSE Head(stream)]

\* str.strip() on the lines of the model
strip(raw) ==
    CASE raw = "" -> ""
      [] raw = "\n" -> ""
      [] raw = "  \n" -> ""
      [] raw = "not json\n" -> "not json"
      [] raw = "{\"method\":\"ping\",\"params\":{},\"id\":\"abc\"}\n" ->
             "{\"method\":\"ping\",\"params\":{},\"id\":\"abc\"}"
      [] raw = "{\"method\":\"ping\",\"params\":{}}\n" ->
             "{\"method\":\"ping\",\"params\":{}}"
      [] raw = "{\"method\":\"memory/search\",\"params\":{\"query\":\"q\"},\"id\":7}\n" ->
             "{\"method\":\"memory/search\",\"params\":{\"query\":\"q\"},\"id\":7}"
      [] raw = "{\"id\":\"abc\"}\n" -> "{\"id\":\"abc\"}"
      [] raw = "5\n" -> "5"

\* json.loads on the stripped lines of the model: the value, or JSONDecodeError
json_loads(text) ==
    CASE text = "{\"method\":\"ping\",\"params\":{},\"id\":\"abc\"}" ->
             [ok |-> TRUE, value |-> PingAbc, desc |-> ""]
      [] text = "{\"method\":\"ping\",\"params\":{}}" ->
             [ok |-> TRUE, value |-> PingNoId, desc |-> ""]
      [] text = "{\"method\":\"memory/search\",\"params\":{\"query\":\"q\"},\"id\":7}" ->
             [ok |-> TRUE, value |-> SearchId7, desc |-> ""]
      [] text = "{\"id\":\"abc\"}" ->
             [ok |-> TRUE, value |-> NoMethodAbc, desc |-> ""]
      [] text = "5" ->
             [ok |-> TRUE, value |-> Number5, desc |-> ""]
      [] OTHER ->
             [ok |-> FALSE, value |-> NoMessage,
              desc |-> "Expecting value: line 1 column 1 (char 0)"]

\* what the POST to the server may do: answer, or fail in transit
Transports == {"ok", "ConnectError", "ReadTimeout"}

parse_error_response_as_internal(desc) ==
    [jsonrpc |-> "2.0",
     error |-> [code |-> InternalErrorCode, message |-> "Parse error: " \o desc]]

\* the error_response of run's `except json.JSONDecodeError`
parse_error_response(desc) ==
    [jsonrpc |-> "2.0",
     error |-> [code |-> ParseErrorCode, message |-> "Parse error: " \o desc]]

\* the error_response of run's `except Exception`
internal_error_response(desc) ==
    [jsonrpc |-> "2.0",
     error |-> [code |-> InternalErrorCode,
                message |-> "Internal error: " \o desc]]

process_message_except_no_id(msg, desc) ==
    IF msg.type = "dict"
    THEN [raised |-> FALSE, exc |-> desc, error |-> "",
          value |-> [jsonrpc |-> "2.0", id |-> None,
                     error |-> [code |-> InternalErrorCode,
                                message |-> "Internal error: " \o desc]]]
    ELSE [raised |-> TRUE, exc |-> desc,
          error |-> "'" \o msg.type \o "' object has no attribute 'get'",
          value |-> EmptyDict]

\* process_message's `except Exception as e`: message.get("id") is an
\* AttributeError when the message is not a dict, and leaves process_message
process_message_except(msg, desc) ==
    IF msg.type = "dict"
    THEN [raised |-> FALSE, exc |-> desc, error |-> "",
          value |-> [jsonrpc |-> "2.0", id |-> Get(msg.fields, "id", None),
                     error |-> [code |-> InternalErrorCode,
                                message |-> "Internal error: " \o desc]]]
    ELSE [raised |-> TRUE, exc |-> desc,
          error |-> "'" \o msg.type \o "' object has no attribute 'get'",
          value |-> EmptyDict]

\* process_message: POST the message to /mcp and return response.json();
\* `srv` is what the server does with it when the POST reaches it
process_message(msg, transport, srv) ==
    IF transport # "ok"
    THEN process_message_except(msg, transport)
    ELSE IF ~srv.isjson
    THEN process_message_except(msg, "Expecting value: line 1 column 1 (char 0)")
    ELSE [raised |-> FALSE, exc |-> None, error |-> "", value |-> srv.body]

Write_first(out, obj) == <<obj>> \o out

Write_twice(out, obj) == Append(Append(out, obj), obj)

\* print(json.dumps(obj), flush=True): one more line at the end of the output
Write(out, obj) == Append(out, obj)

AsyncClient_shared(n) == IF n = 0 THEN 1 ELSE n

\* `async with httpx.AsyncClient() as client`: every call of process_message
\* makes a client of its own and closes it; n clients were made before
AsyncClient(n) == n + 1

----------------------------------------------------------------------------
(* The state machine *)

Init ==
    /\ mcp_server = None
    /\ memory = None
    /\ lifespan = "pending"
    /\ request = NoRequest
    /\ reply = NoReply
    /\ stdin = <<>>
    /\ closed = FALSE
    /\ pc = "Reading"
    /\ message = NoMessage
    /\ response = EmptyDict
    /\ exc = None
    /\ stdout = <<>>
    /\ eof = FALSE
    /\ consumed = <<>>
    /\ server_url = "http://localhost:8765"
    /\ clients = 0
    /\ inflight = <<>>
    /\ log = <<>>

\* startup_event: MCPMemoryServer() sets the global, or initialize_memory
\* raises and the global stays None
startup_event ==
    /\ lifespan = "pending"
    /\ \E initialized \in BOOLEAN :
          IF initialized
          THEN /\ mcp_server' = "MCPMemoryServer"
               /\ memory' = "Memory"
               /\ lifespan' = "ok"
          ELSE /\ lifespan' = "failed"
               /\ UNCHANGED <<mcp_server, memory>>
    /\ UNCHANGED <<request, reply>>
    /\ UNCHANGED bridgeVars
    /\ UNCHANGED callVars

\* a client sends a request to one of the endpoints
ClientSend ==
    /\ request = NoRequest
    /\ \E r \in Requests : request' = r
    /\ reply' = NoReply
    /\ UNCHANGED serverVars
    /\ UNCHANGED bridgeVars
    /\ UNCHANGED callVars

\* the app serves the request: the endpoint's handler runs to its end
Serve ==
    /\ request # NoRequest
    /\ reply = NoReply
    /\ \E eng \in EngineOutcomes :
          reply' = Reply(request.endpoint,
                         CASE request.endpoint = "/mcp" ->
                                  mcp_endpoint(request.body, eng)
                           [] request.endpoint = "/memory/add" ->
                                  add_memory(request.body, eng)
                           [] request.endpoint = "/memory/search" ->
                                  search_memory(request.body, eng))
    /\ UNCHANGED request
    /\ UNCHANGED serverVars
    /\ UNCHANGED bridgeVars
    /\ UNCHANGED callVars

\* the client has its response
ClientReceive ==
    /\ reply # NoReply
    /\ request # NoRequest
    /\ request' = NoRequest
    /\ reply' = NoReply
    /\ UNCHANGED serverVars
    /\ UNCHANGED bridgeVars
    /\ UNCHANGED callVars

\* a writer sends one more line down the bridge's input stream
Feed ==
    /\ ~closed
    /\ Len(stdin) + Len(stdout) + (IF pc = "Reading" THEN 0 ELSE 1) < MaxLines
    /\ \E raw \in RawLines : stdin' = Append(stdin, raw)
    /\ UNCHANGED <<closed, pc, message, response, exc, stdout, eof>>
    /\ UNCHANGED <<consumed, server_url, clients>>
    /\ UNCHANGED <<request, reply>>
    /\ UNCHANGED serverVars
    /\ UNCHANGED callVars

\* the writer closes the stream
Close ==
    /\ ~closed
    /\ closed' = TRUE
    /\ UNCHANGED <<stdin, pc, message, response, exc, stdout, eof>>
    /\ UNCHANGED <<consumed, server_url, clients>>
    /\ UNCHANGED <<request, reply>>
    /\ UNCHANGED serverVars
    /\ UNCHANGED callVars

\* run, lines 44-49 and the handlers of lines 57-68: read a line (readline
\* blocks while the stream is open and empty), skip it if it is empty once
\* stripped, parse it
ReadLine ==
    /\ pc = "Reading"
    /\ stdin # <<>> \/ closed
    /\ LET r == readline(stdin)
           line == strip(r.line)
           parsed == json_loads(line)
       IN  /\ stdin' = IF stdin = <<>> THEN stdin ELSE Tail(stdin)
           /\ eof' = (eof \/ stdin = <<>>)
           /\ consumed' = IF line = "" THEN consumed ELSE Append(consumed, line)
           /\ IF r.raises = "EOFError"
              THEN /\ pc' = "Terminated"                     \* break
                   /\ UNCHANGED <<message, stdout>>
              ELSE IF line = ""
              THEN UNCHANGED <<pc, message, stdout>>         \* continue
              ELSE IF parsed.ok
              THEN /\ message' = parsed.value
                   /\ pc' = "Dispatching"
                   /\ UNCHANGED stdout
              ELSE /\ stdout' = Write(stdout, parse_error_response(parsed.desc))
                   /\ UNCHANGED <<pc, message>>
    /\ UNCHANGED <<closed, response, exc, server_url, clients>>
    /\ UNCHANGED <<request, reply>>
    /\ UNCHANGED serverVars
    /\ UNCHANGED callVars

\* run, line 52 and the handler of lines 69-78: forward the message; the
\* server serves POST /mcp when the POST reaches it
ProcessMessage ==
    /\ pc = "Dispatching"
    /\ \E transport \in Transports, eng \in EngineOutcomes :
          LET srv == mcp_endpoint(message, eng)
              r == process_message(message, transport, srv)
          IN  /\ reply' = IF transport = "ok" THEN Reply("/mcp", srv) ELSE reply
              /\ exc' = r.exc
              /\ IF r.raised
                 THEN /\ stdout' = Write(stdout, internal_error_response(r.error))
                      /\ pc' = "Reading"
                      /\ UNCHANGED response
                 ELSE /\ response' = r.value
                      /\ pc' = "Writing"
                      /\ UNCHANGED stdout
    /\ clients' = AsyncClient(clients)
    /\ UNCHANGED <<stdin, closed, message, eof, consumed, server_url>>
    /\ UNCHANGED request
    /\ UNCHANGED serverVars
    /\ UNCHANGED callVars

\* run, line 55: write the response as one line
WriteResponse ==
    /\ pc = "Writing"
    /\ stdout' = Write(stdout, response)
    /\ pc' = "Reading"
    /\ UNCHANGED <<stdin, closed, message, response, exc, eof>>
    /\ UNCHANGED <<consumed, server_url, clients>>
    /\ UNCHANGED <<request, reply>>
    /\ UNCHANGED serverVars
    /\ UNCHANGED callVars

\* one more POST /mcp request is accepted while others are still being served
Arrive ==
    /\ Len(inflight) + Len(log) < MaxCalls
    /\ \E b \in CallBodies : inflight' = Append(inflight, b)
    /\ UNCHANGED log
    /\ UNCHANGED <<request, reply>>
    /\ UNCHANGED serverVars
    /\ UNCHANGED bridgeVars

\* mcp_endpoint runs for one of the requests in flight, whichever the event
\* loop picks: handle_mcp_request and the handler it awaits never suspend (the
\* engine call is a plain synchronous call), so it runs to its end in one step
ServeConcurrent ==
    /\ \E i \in 1..Len(inflight), eng \in CallOutcomes :
          /\ log' = Append(log, Reply("/mcp", mcp_endpoint(inflight[i], eng)))
          /\ inflight' = SubSeq(inflight, 1, i - 1)
                          \o SubSeq(inflight, i + 1, Len(inflight))
    /\ UNCHANGED <<request, reply>>
    /\ UNCHANGED serverVars
    /\ UNCHANGED bridgeVars

\* the HTTP server and its direct clients
Next ==
    \/ startup_event
    \/ ClientSend
    \/ Serve
    \/ ClientReceive

Spec == Init /\ [][Next]_vars

\* the bridge in front of the HTTP server
StdioNext ==
    \/ startup_event
    \/ Feed
    \/ Close
    \/ ReadLine
    \/ ProcessMessage
    \/ WriteResponse

StdioSpec == Init /\ [][StdioNext]_vars

\* the HTTP server serving several POST /mcp requests at once
ConcurrentNext ==
    \/ startup_event
    \/ Arrive
    \/ ServeConcurrent

ConcurrentSpec == Init /\ [][ConcurrentNext]_vars

----------------------------------------------------------------------------
(* The claims *)

\* the required parameter of each method that has one (spec 4.1)
Required ==
    ("memory/add" :> "messages") @@ ("memory/search" :> "query")
    @@ ("memory/delete" :> "memory_id")

\* the last request served went through dispatch
Dispatched == reply.dispatched

\* the last dispatch call had every required parameter, non-empty
RequiredPresent ==
    reply.req.method \in DOMAIN Required =>
        /\ Required[reply.req.method] \in DOMAIN reply.req.params
        /\ reply.req.params[Required[reply.req.method]] \notin {None, "", "[]"}

\* C1: a dispatch call of memory/add, memory/search or memory/delete whose
\* params omit the required parameter returns an error envelope whose message
\* names that parameter, and makes no engine invocation.
C1_MissingRequiredParam ==
    (/\ Dispatched
     /\ reply.req.method \in DOMAIN Required
     /\ Required[reply.req.method] \notin DOMAIN reply.req.params)
    => /\ reply.status = 200
       /\ reply.body = MCPResponse(None, "No " \o Required[reply.req.method]
                                         \o " provided")
       /\ reply.calls = <<>>

C1_Witness ==
    /\ Dispatched
    /\ reply.req.method = "memory/add"
    /\ "messages" \notin DOMAIN reply.req.params
    /\ reply.status = 200
    /\ reply.body.error = "No messages provided"

\* C2: a dispatch call of a recognized method with its required parameters
\* present and valid, in which the engine succeeds, returns an envelope that
\* bears a result and no error.
C2_ValidCallYieldsResult ==
    (/\ Dispatched
     /\ reply.req.method \in Recognized
     /\ RequiredPresent
     /\ reply.eng.ok)
    => /\ reply.status = 200
       /\ reply.body.result # None
       /\ reply.body.error = None

\* C3: a fault the engine raises during a dispatch call is returned as an
\* error envelope carrying the fault's description; it does not leave dispatch.
C3_EngineFaultCaught ==
    (/\ Dispatched
     /\ reply.calls # <<>>
     /\ ~reply.eng.ok)
    => /\ reply.status = 200
       /\ reply.body = MCPResponse(None, reply.eng.desc)

C3_Witness ==
    /\ Dispatched
    /\ reply.req.method = "memory/reset"
    /\ Len(reply.calls) = 1
    /\ ~reply.eng.ok
    /\ reply.eng.desc = "boom"
    /\ reply.status = 200
    /\ reply.body.error = "boom"

\* C4: dispatch with a method outside the recognized set returns the envelope
\* {error: "Unknown method: <method>"}, raises nothing and makes no engine
\* invocation.
C4_UnknownMethod ==
    (/\ Dispatched
     /\ reply.req.method \notin Recognized)
    => /\ reply.status = 200
       /\ reply.body = MCPResponse(None, "Unknown method: " \o reply.req.method)
       /\ reply.calls = <<>>

C4_Witness ==
    /\ Dispatched
    /\ reply.req.method = "memory/unknown"
    /\ reply.status = 200
    /\ reply.body.error = "Unknown method: memory/unknown"

\* C5: every envelope dispatch returns has exactly one of result and error
\* populated, whatever the method, the params and the engine's outcome.
C5_ExactlyOneField ==
    Dispatched
    => /\ reply.status = 200
       /\ (reply.body.result # None) # (reply.body.error # None)

\* C6: once the end of the input stream has been read, the loop has
\* terminated.
C6_EofTerminates ==
    eof => pc = "Terminated"

\* C7: the response to a structurally valid message that carries an id, once
\* the dispatcher has answered it, carries the same id beside the
\* dispatcher's result or error.
C7_IdEchoed ==
    (/\ pc = "Writing"
     /\ message.type = "dict"
     /\ "method" \in DOMAIN message.fields
     /\ "id" \in DOMAIN message.fields
     /\ exc = None
     /\ reply.dispatched)
    => /\ "id" \in DOMAIN response
       /\ response["id"] = message.fields["id"]

\* C8: reading a line that is not valid JSON writes exactly one line, whose
\* error.code is -32700, and leaves the loop reading.
C8_ParseErrorThenContinue ==
    [][(/\ pc = "Reading"
        /\ stdin # <<>>
        /\ Head(stdin) = "not json\n"
        /\ stdin' = Tail(stdin))
       => /\ Len(stdout') = Len(stdout) + 1
          /\ SubSeq(stdout', 1, Len(stdout)) = stdout
          /\ "id" \notin DOMAIN stdout'[Len(stdout')]
          /\ stdout'[Len(stdout')].error.code = -32700
          /\ pc' = "Reading"]_vars

\* a parse error answered, then a valid line answered normally
C8_Witness ==
    /\ Len(stdout) = 2
    /\ "jsonrpc" \in DOMAIN stdout[1]
    /\ stdout[1].error.code = -32700
    /\ stdout[2] = MCPResponse("{status: pong}", None)

\* C9: a fault while forwarding a parsed message yields a response with
\* error.code -32603 that carries the message's id, and the loop goes on to
\* write it and read again.
C9_ForwardingFaultReported ==
    [][/\ (pc = "Dispatching" /\ pc' # "Dispatching" /\ exc' # None)
          => LET out == IF pc' = "Writing" THEN response'
                        ELSE stdout'[Len(stdout')]
             IN  /\ pc' \in {"Writing", "Reading"}
                 /\ pc' = "Reading" => Len(stdout') = Len(stdout) + 1
                 /\ out.error.code = -32603
                 /\ message.type = "dict"
                    => /\ "id" \in DOMAIN out
                       /\ out.id = Get(message.fields, "id", None)
       /\ (pc = "Writing" /\ pc' # "Writing")
          => /\ pc' = "Reading"
             /\ stdout' = Append(stdout, response)]_vars

C9_Witness ==
    /\ pc = "Writing"
    /\ exc = "ConnectError"
    /\ message = PingAbc
    /\ response.error.code = -32603
    /\ response.id = "abc"

\* C10: with the server instance null after a failed startup, a request to
\* POST /mcp, POST /memory/add or GET /memory/search is rejected with 503 and
\* nothing is called on the null server.
C10_UnavailableRejected ==
    (/\ lifespan = "failed"
     /\ mcp_server = None
     /\ reply.endpoint \in {"/mcp", "/memory/add", "/memory/search"}
     /\ reply.status # 422)
    => /\ reply.status = 503
       /\ ~reply.onNone

\* the /mcp request equivalent to the pending convenience request: the same
\* method, and as params exactly the arguments the client gave
EquivalentMcpBody ==
    JsonDict(("method" :> (IF request.endpoint = "/memory/add"
                           THEN "memory/add" ELSE "memory/search"))
             @@ ("params" :> request.body))

C12_DefaultUserId ==
    (/\ Dispatched
     /\ reply.calls # <<>>
     /\ "user_id" \notin DOMAIN reply.req.params)
    => /\ reply.req.method \in {"memory/add", "memory/search", "memory/list",
                                "memory/reset"}
          => reply.calls[1].kwargs.user_id = "default"
       /\ (reply.req.method = "memory/search"
           /\ DOMAIN reply.req.params = {"query"})
          => reply.calls = <<EngineCall("search",
                               [query |-> reply.req.params["query"],
                                user_id |-> "default", limit |-> "5"])>>

C12_Witness ==
    /\ Dispatched
    /\ reply.req.method = "memory/list"
    /\ reply.req.params = EmptyDict
    /\ reply.calls = <<EngineCall("get_all", [user_id |-> "default"])>>

\* C13: ping returns {result: {status: "pong"}} and invokes no engine
\* operation.
C13_Ping ==
    (/\ Dispatched
     /\ reply.req.method = "ping")
    => /\ reply.status = 200
       /\ reply.body = MCPResponse("{status: pong}", None)
       /\ reply.calls = <<>>

C13_Witness ==
    /\ Dispatched
    /\ reply.req.method = "ping"
    /\ reply.req.params = EmptyDict
    /\ reply.body.result = "{status: pong}"

\* the engine operation of each method that has one
OperationOf ==
    ("memory/add" :> "add") @@ ("memory/search" :> "search")
    @@ ("memory/list" :> "get_all") @@ ("memory/delete" :> "delete")
    @@ ("memory/reset" :> "reset")

\* C19: one dispatch call makes at most one engine invocation, of the
\* operation of its method; ping and unrecognized methods make none.
C19_AtMostOneOwnOperation ==
    Dispatched
    => /\ Len(reply.calls) <= 1
       /\ reply.calls # <<>>
          => /\ reply.req.method \in DOMAIN OperationOf
             /\ reply.calls[1].op = OperationOf[reply.req.method]

C19_Witness ==
    /\ Dispatched
    /\ reply.req.method = "memory/delete"
    /\ reply.calls = <<EngineCall("delete", [memory_id |-> "id1"])>>

\* C20: a required parameter that is present but empty (an empty sequence, an
\* empty string or null) gets the envelope of the absent parameter, and no
\* engine invocation.
C20_EmptyRequiredParam ==
    (/\ Dispatched
     /\ reply.req.method \in DOMAIN Required
     /\ Required[reply.req.method] \in DOMAIN reply.req.params
     /\ reply.req.params[Required[reply.req.method]] \in {"[]", "", None})
    => /\ reply.status = 200
       /\ reply.body = MCPResponse(None, "No " \o Required[reply.req.method]
                                         \o " provided")
       /\ reply.calls = <<>>

C20_Witness ==
    /\ Dispatched
    /\ reply.req.method = "memory/search"
    /\ "query" \in DOMAIN reply.req.params
    /\ reply.req.params["query"] = ""
    /\ reply.body = MCPResponse(None, "No query provided")

\* the shapes of an output line
IsParseError(out) ==
    /\ DOMAIN out = {"jsonrpc", "error"}
    /\ out.error.code = -32700

IsInternalError(out) ==
    /\ "jsonrpc" \in DOMAIN out
    /\ out.error.code = -32603

IsInternalErrorFor(out, id) ==
    /\ DOMAIN out = {"jsonrpc", "id", "error"}
    /\ out.error.code = -32603
    /\ out.id = id

Unavailable == [detail |-> "MCP server not initialized"]

\* `out` is an answer the bridge may give to the stripped line `line`
Answers(line, out) ==
    CASE line = "not json" -> IsParseError(out)
      [] line = "{\"method\":\"ping\",\"params\":{},\"id\":\"abc\"}" ->
             \/ out = MCPResponse("{status: pong}", None)
             \/ out = Unavailable
             \/ IsInternalErrorFor(out, "abc")
      [] line = "{\"method\":\"ping\",\"params\":{}}" ->
             \/ out = MCPResponse("{status: pong}", None)
             \/ out = Unavailable
             \/ IsInternalErrorFor(out, None)
      [] line = "{\"method\":\"memory/search\",\"params\":{\"query\":\"q\"},\"id\":7}" ->
             \/ out \in {MCPResponse(v, None) : v \in {None, "[]", "R"}}
             \/ out \in {MCPResponse(None, d) : d \in {"", "boom"}}
             \/ out = Unavailable
             \/ IsInternalErrorFor(out, "7")
      [] line = "{\"id\":\"abc\"}" ->
             \/ out = [detail |-> "validation error"]
             \/ IsInternalErrorFor(out, "abc")
      [] line = "5" ->
             \/ out = [detail |-> "validation error"]
             \/ (IsInternalError(out) /\ "id" \notin DOMAIN out)
      [] OTHER -> FALSE

\* a step of the loop that takes a line off the input stream
ReadsALine == stdin # <<>> /\ stdin' = Tail(stdin)

\* C15: the loop reads a line only when every line read before has its
\* output written, and the i-th output line answers the i-th non-blank input
\* line.
C15_SequentialInOrder ==
    /\ [](\A i \in 1..Len(stdout) :
            /\ i <= Len(consumed)
            /\ Answers(consumed[i], stdout[i]))
    /\ [][ReadsALine => (pc = "Reading" /\ Len(stdout) = Len(consumed))]_vars

C15_Witness ==
    /\ Len(stdout) = 2
    /\ consumed = <<"{\"method\":\"memory/search\",\"params\":{\"query\":\"q\"},\"id\":7}",
                    "not json">>
    /\ stdout[1] = MCPResponse("R", None)
    /\ IsParseError(stdout[2])

\* C16: every non-blank line read has exactly one output line once the loop is
\* back at reading (and none yet while it is being handled); reading a blank
\* line writes nothing.
C16_ExactlyOneOutputPerLine ==
    /\ [](Len(stdout) = Len(consumed) - (IF pc = "Reading" THEN 0 ELSE 1))
    /\ [][(ReadsALine /\ Head(stdin) \in {"\n", "  \n"})
          => (stdout' = stdout /\ consumed' = consumed /\ pc' = "Reading")]_vars

C16_Witness ==
    /\ pc = "Reading"
    /\ consumed = <<"5", "{\"id\":\"abc\"}">>
    /\ Len(stdout) = 2
    /\ IsInternalError(stdout[1])
    /\ "id" \notin DOMAIN stdout[1]
    /\ stdout[2] = [detail |-> "validation error"]

\* C17 as stated: the bridge's connection state is what startup made it and
\* handling a message never creates or replaces any of it.
C17_ConnectionNeverCreated ==
    /\ server_url = "http://localhost:8765"
    /\ clients = 0

\* C17 as amended: the bridge's server URL is set at construction and never
\* changes; the HTTP client is made anew for each message forwarded, once per
\* message, and by nothing else.
C17_UrlFixedClientPerMessage ==
    /\ [](server_url = "http://localhost:8765")
    /\ [][IF pc = "Dispatching" /\ pc' # "Dispatching"
          THEN clients' = clients + 1
          ELSE clients' = clients]_vars

C17_Witness ==
    /\ server_url = "http://localhost:8765"
    /\ clients = 2
    /\ Len(stdout) = 2
    /\ pc = "Reading"

\* the user a logged reset is for
ResetUser(entry) == Get(entry.req.params, "user_id", "default")

\* C14: two memory/reset calls served in succession for the same user_id, the
\* engine's reset raising nothing, both return {result: {success: true}}.
C14_ResetTwice ==
    \A i \in 1..(Len(log) - 1) :
        (/\ log[i].dispatched /\ log[i + 1].dispatched
         /\ log[i].req.method = "memory/reset"
         /\ log[i + 1].req.method = "memory/reset"
         /\ ResetUser(log[i]) = ResetUser(log[i + 1])
         /\ log[i].eng.ok /\ log[i + 1].eng.ok)
        => /\ log[i].status = 200 /\ log[i + 1].status = 200
           /\ log[i].body = MCPResponse("{success: True}", None)
           /\ log[i + 1].body = MCPResponse("{success: True}", None)

C14_Witness ==
    /\ Len(log) >= 2
    /\ log[1].dispatched /\ log[2].dispatched
    /\ log[1].req = MCPRequest("memory/reset", "user_id" :> "alice")
    /\ log[2].req = log[1].req
    /\ log[1].body = MCPResponse("{success: True}", None)
    /\ log[2].body = MCPResponse("{success: True}", None)

=============================================================================
